---- MODULE Spec2Model ----
(***************************************************************************)
(* Model of the table utilities of src/src/utils.js: the path resolver     *)
(* (getBy / makePathArray), the column materializer (linkColumnStructure / *)
(* assignColumnAccessor / flattenColumns), the header-group builder        *)
(* (makeHeaderGroups) and the row materializer (accessRowsForColumn).      *)
(*                                                                         *)
(* JavaScript values are tagged records [type, val]; strings are sequences *)
(* of one-character strings so that split / replace / join are computed.   *)
(***************************************************************************)
EXTENDS Integers, Sequences, FiniteSets, TLC

----------------------------------------------------------------------------
(* JavaScript values *)

Undef == [type |-> "undefined"]

Null == [type |-> "null"]

Str(s) == [type |-> "string", val |-> s]

Num(n) == [type |-> "number", val |-> n]

Bool(b) == [type |-> "boolean", val |-> b]

Arr(s) == [type |-> "array", val |-> s]

Obj(f) == [type |-> "object", val |-> f]

Fn(name) == [type |-> "function", val |-> name]

\* a reference to the object stored at address a of a heap
Ref(a) == [type |-> "ref", val |-> a]

\* obj[name] on a record-shaped object: undefined when the property is absent
Field(obj, name) == IF name \in DOMAIN obj THEN obj[name] ELSE Undef

\* typeof v !== 'undefined'
Defined(v) == v.type # "undefined"

\* JavaScript truthiness (the `!x`, `a || b` and `if (x)` tests of utils.js)
Truthy(v) ==
  CASE v.type = "undefined" -> FALSE
    [] v.type = "null" -> FALSE
    [] v.type = "string" -> v.val # <<>>
    [] v.type = "number" -> v.val # 0
    [] v.type = "boolean" -> v.val
    [] OTHER -> TRUE

\* a || b
Or(a, b) == IF Truthy(a) THEN a ELSE b

Digits == <<"0", "1", "2", "3", "4", "5", "6", "7", "8", "9">>

\* the decimal digits of a natural number
RECURSIVE NatToStr(_)
NatToStr(n) ==
  IF n < 10 THEN <<Digits[n + 1]>> ELSE NatToStr(n \div 10) \o <<Digits[(n % 10) + 1]>>

\* String(d) for the primitives that occur as path parts and in template literals
String(d) ==
  CASE d.type = "string" -> d.val
    [] d.type = "number" -> NatToStr(d.val)
    [] d.type = "undefined" -> <<"u", "n", "d", "e", "f", "i", "n", "e", "d">>
    [] d.type = "null" -> <<"n", "u", "l", "l">>
    [] d.type = "boolean" -> IF d.val THEN <<"t", "r", "u", "e">>
                                      ELSE <<"f", "a", "l", "s", "e">>
    [] OTHER -> <<"o", "b", "j">>

\* index of the first occurrence of character c in s, 0 when there is none
IndexOf(s, c) ==
  IF \E i \in 1..Len(s) : s[i] = c
    THEN CHOOSE i \in 1..Len(s) : s[i] = c /\ \A j \in 1..(i - 1) : s[j] # c
    ELSE 0

\* s.replace(c, d) with a string pattern: only the first occurrence
ReplaceFirst(s, c, d) ==
  LET i == IndexOf(s, c)
  IN IF i = 0 THEN s ELSE [s EXCEPT ![i] = d]

\* s.replace(/c/g, d) where d is a string (possibly empty)
RECURSIVE ReplaceAll(_, _, _)
ReplaceAll(s, c, d) ==
  IF s = <<>> THEN <<>>
  ELSE (IF Head(s) = c THEN d ELSE <<Head(s)>>) \o ReplaceAll(Tail(s), c, d)

\* parts.join(sep)
RECURSIVE Join(_, _)
Join(parts, sep) ==
  IF parts = <<>> THEN <<>>
  ELSE IF Len(parts) = 1 THEN parts[1]
  ELSE parts[1] \o sep \o Join(Tail(parts), sep)

\* s.split(c)
RECURSIVE Split(_, _)
Split(s, c) ==
  LET i == IndexOf(s, c)
  IN IF i = 0 THEN <<s>>
     ELSE <<SubSeq(s, 1, i - 1)>> \o Split(SubSeq(s, i + 1, Len(s)), c)

----------------------------------------------------------------------------
(* Path resolver *)

\* flattenDeep(arr, newArr): the non-array leaves of a nested array, in order
RECURSIVE flattenDeep(_)
flattenDeep(arr) ==
  IF arr.type # "array" THEN <<arr>>
  ELSE IF arr.val = <<>> THEN <<>>
  ELSE flattenDeep(arr.val[1]) \o flattenDeep(Arr(Tail(arr.val)))

\* makePathArray(obj): the key sequence a path is parsed into
makePathArray(obj) ==
  LET flat == flattenDeep(obj)
      parts == [i \in 1..Len(flat) |-> ReplaceFirst(String(flat[i]), ".", "_")]
      joined == Join(parts, <<".">>)
      opened == ReplaceAll(joined, "[", <<".">>)
      closed == ReplaceAll(opened, "]", <<>>)
  IN Split(closed, ".")

\* JSON.stringify(path) for strings, numbers, null/undefined and arrays
RECURSIVE JSONstringify(_)
JSONstringify(v) ==
  CASE v.type = "string" -> <<"\"">> \o v.val \o <<"\"">>
    [] v.type = "number" -> String(v)
    [] v.type = "boolean" -> String(v)
    [] v.type = "array" ->
         <<"[">> \o Join([i \in 1..Len(v.val) |-> JSONstringify(v.val[i])], <<",">>)
                 \o <<"]">>
    [] OTHER -> <<"n", "u", "l", "l">>

\* cursor[pathPart]: property read; throws on undefined and null
GetProp(cursor, pathPart) ==
  CASE cursor.type \in {"undefined", "null"} -> [threw |-> TRUE, val |-> Undef]
    [] cursor.type = "object" ->
         [threw |-> FALSE,
          val |-> IF pathPart \in DOMAIN cursor.val THEN cursor.val[pathPart] ELSE Undef]
    [] cursor.type = "array" ->
         [threw |-> FALSE,
          val |-> IF \E i \in 1..Len(cursor.val) : pathPart = <<Digits[i]>>
                    THEN cursor.val[CHOOSE i \in 1..Len(cursor.val) : pathPart = <<Digits[i]>>]
                    ELSE Undef]
    [] cursor.type = "string" ->
         [threw |-> FALSE,
          val |-> IF \E i \in 1..Len(cursor.val) : pathPart = <<Digits[i]>>
                    THEN Str(<<cursor.val[CHOOSE i \in 1..Len(cursor.val) : pathPart = <<Digits[i]>>]>>)
                    ELSE Undef]
    [] OTHER -> [threw |-> FALSE, val |-> Undef]

\* pathObj.reduce((cursor, pathPart) => cursor[pathPart], obj)
RECURSIVE ReducePath(_, _)
ReducePath(pathObj, cursor) ==
  IF pathObj = <<>> THEN [threw |-> FALSE, val |-> cursor]
  ELSE LET r == GetProp(cursor, Head(pathObj))
       IN IF r.threw THEN r ELSE ReducePath(Tail(pathObj), r.val)

\* getBy(obj, path, def) run against the cache contents `cache`:
\* the returned value, whether an exception escaped, and the cache afterwards
getBy(obj, path, def, cache) ==
  IF ~Truthy(path) THEN [ret |-> obj, threw |-> FALSE, cache |-> cache, parsed |-> FALSE]
  ELSE
    LET cacheKey == JSONstringify(path)
        hit == cacheKey \in DOMAIN cache
        pathObj == IF hit THEN cache[cacheKey] ELSE makePathArray(path)
        r == ReducePath(pathObj, obj)
        val == IF r.threw THEN Undef ELSE r.val
    IN [ret |-> IF Defined(val) THEN val ELSE def,
        threw |-> FALSE,
        cache |-> IF hit THEN cache ELSE (cacheKey :> pathObj) @@ cache,
        parsed |-> ~hit]

----------------------------------------------------------------------------
(* Column materializer *)

\* row => getBy(row, accessorPath): the closure assignColumnAccessor builds
PathAccessor(accessorPath) ==
  [type |-> "function", val |-> "getBy", path |-> accessorPath]

\* accessor.split('.') as an array of strings
SplitPath(accessor) ==
  Arr([i \in 1..Len(Split(accessor, ".")) |-> Str(Split(accessor, ".")[i])])

\* faulty variant of assignColumnAccessor: the string Header is consulted
\* before the string accessor (sensitivity of C1_IdResolution)
assignColumnAccessor_HeaderFirst(column) ==
  LET isStr == column.accessor.type = "string"
      id1 == IF ~Truthy(column.id) /\ column.Header.type = "string" /\ Truthy(column.Header)
               THEN column.Header ELSE column.id
      id2 == IF isStr THEN Or(id1, column.accessor) ELSE id1
  IN IF ~Truthy(id2)
       THEN [threw |-> TRUE, column |-> column]
       ELSE [threw |-> FALSE,
             column |-> [column EXCEPT
                           !.id = id2,
                           !.accessor = IF isStr THEN PathAccessor(SplitPath(column.accessor.val))
                                                 ELSE column.accessor]]

\* faulty variant of assignColumnAccessor: the two `if (!id) throw` checks
\* are missing (sensitivity of C2_FailFast)
assignColumnAccessor_NoThrow(column) ==
  LET isStr == column.accessor.type = "string"
      id1 == IF isStr THEN Or(column.id, column.accessor) ELSE column.id
      id2 == IF ~Truthy(id1) /\ column.Header.type = "string" /\ Truthy(column.Header)
               THEN column.Header ELSE id1
  IN [threw |-> FALSE,
      column |-> [column EXCEPT
                    !.id = id2,
                    !.accessor = IF isStr THEN PathAccessor(SplitPath(column.accessor.val))
                                          ELSE column.accessor]]

\* assignColumnAccessor(column): the column with id and accessor resolved,
\* or threw when no id can be resolved
assignColumnAccessor(column) ==
  LET isStr == column.accessor.type = "string"
      id1 == IF isStr THEN Or(column.id, column.accessor) ELSE column.id
      id2 == IF ~Truthy(id1) /\ column.Header.type = "string" /\ Truthy(column.Header)
               THEN column.Header ELSE id1
  IN IF ~Truthy(id2)
       THEN [threw |-> TRUE, column |-> column]
       ELSE [threw |-> FALSE,
             column |-> [column EXCEPT
                           !.id = id2,
                           !.accessor = IF isStr THEN PathAccessor(SplitPath(column.accessor.val))
                                                 ELSE column.accessor]]

\* faulty variant of CopyColumn: every copy gets depth 0
\* (sensitivity of C16_ColumnLinkage)
CopyColumn_RootDepth(column, parent, depth) ==
  [id |-> column.id, accessor |-> column.accessor, Header |-> column.Header,
   columns |-> column.columns, parent |-> parent, depth |-> Num(0)]

\* column = { ...column, parent, depth }
CopyColumn(column, parent, depth) ==
  [id |-> column.id, accessor |-> column.accessor, Header |-> column.Header,
   columns |-> column.columns, parent |-> parent, depth |-> Num(depth)]

\* one step of columns.map(column => ...): a is the outcome of
\* assignColumnAccessor on the copy, which lives at address Len(heap) + 1, and
\* sub the outcome of linking its column.columns
LinkColumn(a, heap, sub) ==
  IF a.threw THEN [threw |-> TRUE, refs |-> <<>>, heap |-> heap]
  ELSE IF ~Truthy(a.column.columns)
    THEN [threw |-> FALSE, refs |-> <<Ref(Len(heap) + 1)>>, heap |-> Append(heap, a.column)]
  ELSE IF sub.threw THEN [threw |-> TRUE, refs |-> <<>>, heap |-> heap]
  ELSE [threw |-> FALSE, refs |-> <<Ref(Len(heap) + 1)>>,
        heap |-> [sub.heap EXCEPT ![Len(heap) + 1] =
                    [a.column EXCEPT !.columns = Arr(sub.refs)]]]

\* the mapped column followed by the rest of the mapped array
PrependColumn(one, rest) ==
  IF rest.threw THEN rest ELSE [rest EXCEPT !.refs = one.refs \o @]

\* linkColumnStructure(columns, parent, depth): every node is copied into the
\* heap with parent and depth set and id/accessor resolved; refs are the
\* addresses of the copies of `columns`, in order
RECURSIVE linkColumnStructure(_, _, _, _)
linkColumnStructure(columns, parent, depth, heap) ==
  IF columns = <<>> THEN [threw |-> FALSE, refs |-> <<>>, heap |-> heap]
  ELSE
    LET one == LinkColumn(
                 assignColumnAccessor(CopyColumn(Head(columns), parent, depth)),
                 heap,
                 linkColumnStructure(Head(columns).columns.val, Ref(Len(heap) + 1),
                                     depth + 1,
                                     Append(heap, CopyColumn(Head(columns), parent, depth))))
    IN IF one.threw THEN one
       ELSE PrependColumn(one, linkColumnStructure(Tail(columns), parent, depth, one.heap))

\* Math.max(a, b)
MathMax(a, b) == IF a >= b THEN a ELSE b

\* columns.reduce((prev, curr) => ..., prev) of findMaxDepth at the given depth:
\* a column with columns gives Math.max(prev, findMaxDepth(curr.columns, depth + 1)),
\* any other column gives depth
RECURSIVE ReduceDepth(_, _, _)
ReduceDepth(columns, depth, prev) ==
  IF columns = <<>> THEN prev
  ELSE ReduceDepth(Tail(columns), depth,
                   IF Truthy(Head(columns).columns)
                     THEN MathMax(prev, ReduceDepth(Head(columns).columns.val, depth + 1, 0))
                     ELSE depth)

\* findMaxDepth(columns, depth = 0)
findMaxDepth(columns, depth) == ReduceDepth(columns, depth, 0)

\* flattenBy(arr, key): the nodes whose d[key] is falsy, depth first
RECURSIVE flattenBy(_, _, _)
flattenBy(arr, key, heap) ==
  IF arr = <<>> THEN <<>>
  ELSE LET d == heap[Head(arr).val]
       IN (IF ~Truthy(Field(d, key)) THEN <<Head(arr)>>
           ELSE flattenBy(Field(d, key).val, key, heap))
          \o flattenBy(Tail(arr), key, heap)

\* flattenColumns(columns)
flattenColumns(columns, heap) == flattenBy(columns, "columns", heap)

----------------------------------------------------------------------------
(* Header-group builder *)

sPlaceholder == <<"_", "p", "l", "a", "c", "e", "h", "o", "l", "d", "e", "r">>

\* decorateColumn(column, userDefaultColumn): throws without a default column;
\* the column's own properties win over the defaults and the fallback Header
decorateColumn(column, userDefaultColumn) ==
  IF ~Truthy(userDefaultColumn) THEN [threw |-> TRUE, column |-> column]
  ELSE [threw |-> FALSE,
        column |-> column @@ userDefaultColumn.val
                          @@ [Header |-> Fn("nbsp"), Footer |-> Fn("nbsp")]]

\* faulty variant of ScanColumn: a column whose parent equals the latest parent
\* is not pushed into that parent's headers (sensitivity of C4_Rectangular)
ScanColumn_DropMerged(st, colRef, hasParents, defaultColumn) ==
  IF st.threw THEN st
  ELSE IF ~hasParents THEN [st EXCEPT !.headers = Append(@, colRef)]
  ELSE
    LET column == st.heap[colRef.val]
        latestParentColumn ==
          IF st.parentColumns = <<>> THEN Undef
          ELSE st.parentColumns[Len(st.parentColumns)]
        hasParent == Truthy(Field(column, "parent"))
        parent == st.heap[column.parent.val]
        placeholder ==
          decorateColumn(
            [originalId |-> Str(String(column.id) \o sPlaceholder),
             id |-> Str(String(column.id) \o sPlaceholder \o <<"_">> \o NatToStr(st.uid)),
             placeholderOf |-> colRef,
             headers |-> Arr(<<colRef>>)],
            defaultColumn)
        newParent ==
          IF hasParent
            THEN [originalId |-> parent.id,
                  id |-> Str(String(parent.id) \o <<"_">> \o NatToStr(st.uid)),
                  headers |-> Arr(<<colRef>>)] @@ parent
            ELSE placeholder.column
    IN IF ~hasParent /\ placeholder.threw THEN [st EXCEPT !.threw = TRUE]
       ELSE IF /\ Truthy(latestParentColumn)
               /\ st.heap[latestParentColumn.val].originalId = newParent.originalId
         THEN [st EXCEPT !.uid = @ + 1,
                         !.headers = Append(@, colRef)]
         ELSE [st EXCEPT !.heap = Append(@, newParent),
                         !.parentColumns = Append(@, Ref(Len(st.heap) + 1)),
                         !.uid = @ + 1,
                         !.headers = Append(@, colRef)]

\* faulty variant of ScanColumn: every frontier column gets a header cell of
\* its own, equal adjacent parents are not merged (sensitivity of
\* C17_AdjacentParentsMerged)
ScanColumn_NeverMerge(st, colRef, hasParents, defaultColumn) ==
  IF st.threw THEN st
  ELSE IF ~hasParents THEN [st EXCEPT !.headers = Append(@, colRef)]
  ELSE
    LET column == st.heap[colRef.val]
        hasParent == Truthy(Field(column, "parent"))
        parent == st.heap[column.parent.val]
        placeholder ==
          decorateColumn(
            [originalId |-> Str(String(column.id) \o sPlaceholder),
             id |-> Str(String(column.id) \o sPlaceholder \o <<"_">> \o NatToStr(st.uid)),
             placeholderOf |-> colRef,
             headers |-> Arr(<<colRef>>)],
            defaultColumn)
        newParent ==
          IF hasParent
            THEN [originalId |-> parent.id,
                  id |-> Str(String(parent.id) \o <<"_">> \o NatToStr(st.uid)),
                  headers |-> Arr(<<colRef>>)] @@ parent
            ELSE placeholder.column
    IN IF ~hasParent /\ placeholder.threw THEN [st EXCEPT !.threw = TRUE]
       ELSE [st EXCEPT !.heap = Append(@, newParent),
                       !.parentColumns = Append(@, Ref(Len(st.heap) + 1)),
                       !.uid = @ + 1,
                       !.headers = Append(@, colRef)]

\* the body of scanColumns.forEach(column => ...) for one frontier column;
\* st carries the heap, parentColumns, headerGroup.headers and the uid counter
ScanColumn(st, colRef, hasParents, defaultColumn) ==
  IF st.threw THEN st
  ELSE IF ~hasParents THEN [st EXCEPT !.headers = Append(@, colRef)]
  ELSE
    LET column == st.heap[colRef.val]
        latestParentColumn ==
          IF st.parentColumns = <<>> THEN Undef
          ELSE st.parentColumns[Len(st.parentColumns)]
        hasParent == Truthy(Field(column, "parent"))
        parent == st.heap[column.parent.val]
        placeholder ==
          decorateColumn(
            [originalId |-> Str(String(column.id) \o sPlaceholder),
             id |-> Str(String(column.id) \o sPlaceholder \o <<"_">> \o NatToStr(st.uid)),
             placeholderOf |-> colRef,
             headers |-> Arr(<<colRef>>)],
            defaultColumn)
        newParent ==
          IF hasParent
            THEN [originalId |-> parent.id,
                  id |-> Str(String(parent.id) \o <<"_">> \o NatToStr(st.uid)),
                  headers |-> Arr(<<colRef>>)] @@ parent
            ELSE placeholder.column
    IN IF ~hasParent /\ placeholder.threw THEN [st EXCEPT !.threw = TRUE]
       ELSE IF /\ Truthy(latestParentColumn)
               /\ st.heap[latestParentColumn.val].originalId = newParent.originalId
         THEN [st EXCEPT !.heap[latestParentColumn.val].headers = Arr(Append(@.val, colRef)),
                         !.uid = @ + 1,
                         !.headers = Append(@, colRef)]
         ELSE [st EXCEPT !.heap = Append(@, newParent),
                         !.parentColumns = Append(@, Ref(Len(st.heap) + 1)),
                         !.uid = @ + 1,
                         !.headers = Append(@, colRef)]

\* scanColumns.forEach over the frontier, left to right
RECURSIVE ScanColumns(_, _, _, _)
ScanColumns(st, scanColumns, hasParents, defaultColumn) ==
  IF scanColumns = <<>> THEN st
  ELSE ScanColumns(ScanColumn(st, Head(scanColumns), hasParents, defaultColumn),
                   Tail(scanColumns), hasParents, defaultColumn)

\* the while (scanColumns.length) loop: headerGroups in build order
RECURSIVE HeaderGroupLoop(_, _, _, _, _)
HeaderGroupLoop(scanColumns, defaultColumn, heap, uid, headerGroups) ==
  IF scanColumns = <<>>
    THEN [threw |-> FALSE, headerGroups |-> headerGroups, heap |-> heap]
  ELSE
    LET hasParents ==
          \E i \in 1..Len(scanColumns) : Truthy(Field(heap[scanColumns[i].val], "parent"))
        st == ScanColumns([heap |-> heap, parentColumns |-> <<>>, headers |-> <<>>,
                           uid |-> uid, threw |-> FALSE],
                          scanColumns, hasParents, defaultColumn)
    IN IF st.threw THEN [threw |-> TRUE, headerGroups |-> <<>>, heap |-> heap]
       ELSE HeaderGroupLoop(st.parentColumns, defaultColumn, st.heap, st.uid,
                            Append(headerGroups, [headers |-> st.headers]))

\* [...arr].reverse()
Reverse(arr) == [i \in 1..Len(arr) |-> arr[Len(arr) + 1 - i]]

\* faulty variant of makeHeaderGroups: the groups are returned in build order
\* (sensitivity of C18_OutermostFirst)
makeHeaderGroups_BuildOrder(allColumns, defaultColumn, heap) ==
  HeaderGroupLoop(allColumns, defaultColumn, heap, 0, <<>>)

\* makeHeaderGroups(allColumns, defaultColumn)
makeHeaderGroups(allColumns, defaultColumn, heap) ==
  LET r == HeaderGroupLoop(allColumns, defaultColumn, heap, 0, <<>>)
  IN [r EXCEPT !.headerGroups = Reverse(@)]

----------------------------------------------------------------------------
(* Row materializer *)

kK == <<"k">>

kSubRows == <<"s", "u", "b", "R", "o", "w", "s">>

\* the depth of accessRow frames after which the engine raises RangeError
StackLimit == 6

\* function unpreparedAccessWarning() { throw new Error(...) }
unpreparedAccessWarning == Fn("unpreparedAccessWarning")

\* row.cells of a new row: the array [{}] holding one dummy cell, with map,
\* filter and forEach overridden on the array and getCellProps set on the cell
UnpreparedCells ==
  [elems |-> <<[getCellProps |-> unpreparedAccessWarning]>>,
   map |-> unpreparedAccessWarning,
   filter |-> unpreparedAccessWarning,
   forEach |-> unpreparedAccessWarning]

\* getSubRows(originalRow, rowIndex): the sub-row array under the sub-rows key
getSubRows(originalRow, rowIndex) == GetProp(originalRow, kSubRows).val

\* getRowId(originalRow, rowIndex, parent): "path" derives the id from the
\* index and the ancestry path, "key" reads the id from the data item
getRowId(kind, originalRow, rowIndex, parent, heap) ==
  IF kind = "path"
    THEN IF Truthy(parent)
           THEN Str(String(heap[parent.val].id) \o <<".">> \o NatToStr(rowIndex))
           ELSE Str(NatToStr(rowIndex))
    ELSE GetProp(originalRow, kK).val

\* one value-transform hook applied to a value
ApplyHook(hook, value) == [type |-> "hooked", by |-> hook, val |-> value]

\* reduceHooks(hooks, initial, meta, true): every hook in registration order,
\* each receiving the value returned by the previous one
RECURSIVE reduceHooks(_, _)
reduceHooks(hooks, initial) ==
  IF hooks = <<>> THEN initial
  ELSE reduceHooks(Tail(hooks), ApplyHook(Head(hooks), initial))

\* column.accessor(originalRow, rowIndex, row): the value and the path cache.
\* "getBy" is the closure of assignColumnAccessor; the function accessors of the
\* configurations return rowIndex ("byIndex") or row.id ("byRowId")
ApplyAccessor(accessor, originalRow, rowIndex, row, cache) ==
  CASE accessor.val = "getBy" -> getBy(originalRow, accessor.path, Undef, cache)
    [] accessor.val = "byIndex" -> [ret |-> Num(rowIndex), cache |-> cache]
    [] OTHER -> [ret |-> row.id, cache |-> cache]

\* row.values[key]
ValuesGet(values, key) == IF key \in DOMAIN values THEN values[key] ELSE Undef

\* faulty variant of StoreValue: the accessor value is stored as it is, the
\* hooks are not run (sensitivity of C9_CellValue)
StoreValue_SkipHooks(env, st, addr, acc) ==
  [st EXCEPT !.heap[addr].values = (String(env.column.id) :> acc.ret) @@ @,
             !.cache = acc.cache]

\* row.values[column.id] = reduceHooks(accessValueHooks, row.values[column.id], ...)
\* where acc.ret is what row.values[column.id] holds at that point
StoreValue(env, st, addr, acc) ==
  [st EXCEPT !.heap[addr].values =
               (String(env.column.id) :> reduceHooks(env.hooks, acc.ret)) @@ @,
             !.cache = acc.cache]

\* the tail of accessRow: the accessor value, then the hooks, stored under column.id
AssignValue(env, st, addr, originalRow, rowIndex) ==
  IF st.threw THEN st
  ELSE IF Truthy(env.column.accessor)
    THEN StoreValue(env, st, addr,
           ApplyAccessor(env.column.accessor, originalRow, rowIndex, st.heap[addr], st.cache))
    ELSE StoreValue(env, st, addr,
           [ret |-> ValuesGet(st.heap[addr].values, String(env.column.id)),
            cache |-> st.cache])

\* faulty variant of NewRow: every row gets the default depth 0
\* (sensitivity of C7_RowOutputs)
NewRow_TopDepth(id, originalRow, rowIndex, depth) ==
  [id |-> id, original |-> originalRow, index |-> Num(rowIndex),
   depth |-> Num(0), cells |-> UnpreparedCells, values |-> <<>>,
   originalSubRows |-> getSubRows(originalRow, rowIndex), subRows |-> Undef]

\* the row object literal accessRow creates for an id seen for the first time
NewRow(id, originalRow, rowIndex, depth) ==
  [id |-> id, original |-> originalRow, index |-> Num(rowIndex),
   depth |-> Num(depth), cells |-> UnpreparedCells, values |-> <<>>,
   originalSubRows |-> getSubRows(originalRow, rowIndex), subRows |-> Undef]

\* faulty variant of RowExists: the cache is never consulted
\* (sensitivity of C8_IdempotentReentry)
RowExists_Never(rowsById, key) == FALSE

\* let row = rowsById[id]; if (!row) ... : is there a cached row for the id
RowExists(rowsById, key) == key \in DOMAIN rowsById

\* parentRows.push(row); flatRows.push(row); rowsById[id] = row
RegisterRow(st, row, key) ==
  [st EXCEPT !.heap = Append(@, row),
             !.parentRows = Append(@, Ref(Len(st.heap) + 1)),
             !.flatRows = Append(@, Ref(Len(st.heap) + 1)),
             !.rowsById = (key :> Ref(Len(st.heap) + 1)) @@ @]

\* the state in which the sub-rows of a new row are walked: the row is
\* registered and the walk pushes into a fresh array (const subRows = [])
SubRowsStart(env, st, originalRow, rowIndex, depth, parent) ==
  [RegisterRow(st,
               NewRow(getRowId(env.getRowId, originalRow, rowIndex, parent, st.heap),
                      originalRow, rowIndex, depth),
               String(getRowId(env.getRowId, originalRow, rowIndex, parent, st.heap)))
     EXCEPT !.parentRows = <<>>]

\* the cached row of a data item: rowsById[id]
CachedRow(env, st, originalRow, rowIndex, parent) ==
  st.rowsById[String(getRowId(env.getRowId, originalRow, rowIndex, parent, st.heap))]

\* the body of accessRow(originalRow, rowIndex, depth, parent, parentRows);
\* subNew is the state after the sub-rows of a new row were walked, subOld
\* the state after the sub-rows of a cached row were walked again.  st.parentRows
\* is the array parentRows, hasParentRows is false when it is undefined.
AccessRowBody(env, st, originalRow, rowIndex, depth, parent, hasParentRows, fuel, subNew, subOld) ==
  LET id == getRowId(env.getRowId, originalRow, rowIndex, parent, st.heap)
      key == String(id)
      addr == Len(st.heap) + 1
      row == NewRow(id, originalRow, rowIndex, depth)
      st1 == RegisterRow(st, row, key)
      st2 == IF ~Truthy(row.originalSubRows) THEN st1
             ELSE IF subNew.threw THEN [subNew EXCEPT !.parentRows = st1.parentRows]
             ELSE [subNew EXCEPT !.parentRows = st1.parentRows,
                                 !.heap[addr].subRows = Arr(subNew.parentRows)]
      oldAddr == st.rowsById[key].val
      st3 == IF Truthy(st.heap[oldAddr].subRows)
               THEN [subOld EXCEPT !.parentRows = st.parentRows]
               ELSE st
  IN IF fuel = 0 THEN [st EXCEPT !.threw = TRUE]
     ELSE IF ~RowExists(st.rowsById, key)
       THEN IF ~hasParentRows THEN [st EXCEPT !.threw = TRUE]
            ELSE AssignValue(env, st2, addr, originalRow, rowIndex)
       ELSE AssignValue(env, st3, oldAddr, originalRow, rowIndex)

\* items.forEach((d, i) => accessRow(d, i, depth, parent, parentRows)) from
\* item i on; an exception ends the walk
RECURSIVE accessRow(_, _, _, _, _, _, _, _)
accessRow(env, st, items, i, depth, parent, hasParentRows, fuel) ==
  IF i > Len(items) \/ st.threw THEN st
  ELSE accessRow(env,
         AccessRowBody(env, st, items[i], i - 1, depth, parent, hasParentRows, fuel,
           accessRow(env, SubRowsStart(env, st, items[i], i - 1, depth, parent),
                     getSubRows(items[i], i - 1).val, 1, depth + 1,
                     Ref(Len(st.heap) + 1), TRUE, fuel - 1),
           accessRow(env, st,
                     st.heap[CachedRow(env, st, items[i], i - 1, parent).val].originalSubRows.val,
                     1, depth + 1, CachedRow(env, st, items[i], i - 1, parent),
                     FALSE, fuel - 1)),
         items, i + 1, depth, parent, hasParentRows, fuel)

\* accessRowsForColumn({ data, rows, flatRows, rowsById, column, ... }):
\* data.forEach((originalRow, rowIndex) => accessRow(originalRow, rowIndex, 0, undefined, rows))
accessRowsForColumn(env, st) == accessRow(env, st, env.data, 1, 0, Undef, TRUE, StackLimit)

----------------------------------------------------------------------------
(* Row expansion *)

\* a && b
And(a, b) == IF Truthy(a) THEN b ELSE a

\* the destructured parameter expandSubRows = true
expandSubRowsOf(opts) ==
  IF Defined(opts.expandSubRows) THEN Truthy(opts.expandSubRows) ELSE TRUE

\* faulty variant of isExpandedOf: the flag on the raw data item is not
\* consulted (sensitivity of C13_ExpansionFlags)
isExpandedOf_StateOnly(row, opts) == GetProp(opts.expanded, String(row.id)).val

\* (row.original && row.original[manualExpandedKey]) || expanded[row.id]
isExpandedOf(row, opts) ==
  Or(And(row.original, GetProp(row.original, String(opts.manualExpandedKey)).val),
     GetProp(opts.expanded, String(row.id)).val)

\* row.subRows && !!row.subRows.length
canExpandOf(row) ==
  And(row.subRows, Bool(Truthy(row.subRows) /\ Len(row.subRows.val) # 0))

\* faulty variant of MarkRow: the sub-rows of the row are reset to collapsed
\* whether or not they are emitted (sensitivity of C25_OnlyEmittedRowsWritten)
MarkRow_ResetSubRows(st, ref, opts) ==
  [st EXCEPT !.heap = [a \in DOMAIN st.heap |->
                         IF a = ref.val
                           THEN [isExpanded |-> isExpandedOf(st.heap[a], opts),
                                 canExpand |-> canExpandOf(st.heap[a])] @@ st.heap[a]
                         ELSE IF /\ Truthy(st.heap[ref.val].subRows)
                                 /\ \E k \in 1..Len(st.heap[ref.val].subRows.val) :
                                      st.heap[ref.val].subRows.val[k] = Ref(a)
                           THEN [isExpanded |-> Bool(FALSE)] @@ st.heap[a]
                         ELSE st.heap[a]],
             !.out = Append(@, ref)]

\* the head of handleRow: both flags are assigned and the row is pushed
MarkRow(st, ref, opts) ==
  [st EXCEPT !.heap[ref.val] = [isExpanded |-> isExpandedOf(@, opts),
                                canExpand |-> canExpandOf(@)] @@ @,
             !.out = Append(@, ref)]

\* faulty variant of DescendsInto: sub-rows are walked whether or not the row
\* is expanded (sensitivity of C11_ExpansionSequence)
DescendsInto_AnyRow(row, opts) ==
  /\ expandSubRowsOf(opts)
  /\ Truthy(row.subRows)
  /\ Len(row.subRows.val) # 0

\* expandSubRows && row.subRows && row.subRows.length && row.isExpanded
DescendsInto(row, opts) ==
  /\ expandSubRowsOf(opts)
  /\ Truthy(row.subRows)
  /\ Len(row.subRows.val) # 0
  /\ Truthy(isExpandedOf(row, opts))

\* refs.forEach(handleRow) from element i on
RECURSIVE handleRow(_, _, _, _)
handleRow(st, refs, i, opts) ==
  IF i > Len(refs) THEN st
  ELSE handleRow(
         IF DescendsInto(st.heap[refs[i].val], opts)
           THEN handleRow(MarkRow(st, refs[i], opts), st.heap[refs[i].val].subRows.val, 1, opts)
           ELSE MarkRow(st, refs[i], opts),
         refs, i + 1, opts)

\* expandRows(rows, { manualExpandedKey, expanded, expandSubRows = true }):
\* the returned sequence `out` and the row objects with their flags set
expandRows(rowRefs, opts, heap) == handleRow([heap |-> heap, out |-> <<>>], rowRefs, 1, opts)

----------------------------------------------------------------------------
(* Filter helpers *)

kText == <<"t", "e", "x", "t">>

\* if (typeof a === 'function') return a
isFunction(a) == IF a.type = "function" THEN a ELSE Undef

\* faulty variant of getFilterMethod: the built-in registry is consulted
\* before the user's (sensitivity of C14_FilterResolution)
getFilterMethod_BuiltInFirst(filter, userFilterTypes, filterTypes) ==
  Or(Or(Or(isFunction(filter), GetProp(filterTypes, String(filter)).val),
        GetProp(userFilterTypes, String(filter)).val),
     GetProp(filterTypes, kText).val)

\* isFunction(filter) || userFilterTypes[filter] || filterTypes[filter] || filterTypes.text
getFilterMethod(filter, userFilterTypes, filterTypes) ==
  Or(Or(Or(isFunction(filter), GetProp(userFilterTypes, String(filter)).val),
        GetProp(filterTypes, String(filter)).val),
     GetProp(filterTypes, kText).val)

\* autoRemove(value, column) for the autoRemove functions of the inputs:
\* "falsy" is val => !val, "never" is () => false, "echo" is val => val and
\* "byColumn" is (val, column) => column.autoRemove
CallAutoRemove(autoRemove, value, column) ==
  CASE autoRemove.val = "falsy" -> Bool(~Truthy(value))
    [] autoRemove.val = "never" -> Bool(FALSE)
    [] autoRemove.val = "echo" -> value
    [] OTHER -> Field(column, "autoRemove")

\* faulty variant of shouldAutoRemoveFilter: without an autoRemove function
\* every falsy value is removed (sensitivity of C15_AutoRemoval)
shouldAutoRemoveFilter_Falsy(autoRemove, value, column) ==
  IF Truthy(autoRemove) THEN CallAutoRemove(autoRemove, value, column)
  ELSE Bool(~Truthy(value))

\* autoRemove ? autoRemove(value, column) : typeof value === 'undefined'
shouldAutoRemoveFilter(autoRemove, value, column) ==
  IF Truthy(autoRemove) THEN CallAutoRemove(autoRemove, value, column)
  ELSE Bool(value.type = "undefined")

----------------------------------------------------------------------------
(* State *)

VARIABLES
  pathObjCache,     \* const pathObjCache = new Map(): cacheKey -> parsed key sequence
  gbCall,           \* the last direct getBy call: its arguments and its outcome
  gbCount,          \* number of direct getBy calls made so far
  columns,          \* the column configuration tree given to linkColumnStructure
  data,             \* the raw data array
  rowIdKind,        \* which getRowId the table was given
  accessValueHooks, \* the registered value-transform hooks, in registration order
  pc,               \* progress of the materialization
  colHeap,          \* the column and header objects created so far
  linked,           \* the result of linkColumnStructure(columns)
  allColumns,       \* the result of flattenColumns(linked)
  headerGroups,     \* the result of makeHeaderGroups(allColumns, defaultColumn)
  rowHeap,          \* the row objects created so far
  rows,             \* accumulator: top-level rows
  flatRows,         \* accumulator: every row
  rowsById,         \* accumulator: id -> row
  passes,           \* number of accessRowsForColumn calls made so far
  lastPass,         \* the last accessRowsForColumn call
  cellRead,         \* the last read of a row's cells collection
  exCall,           \* the last expandRows call: its options and the returned sequence
  flCall,           \* the last getFilterMethod / shouldAutoRemoveFilter call
  mdCall            \* the last findMaxDepth call: its outcome

varsGetBy == <<pathObjCache, gbCall, gbCount>>

varsInput == <<columns, data, rowIdKind, accessValueHooks>>

varsCols == <<colHeap, linked, allColumns, headerGroups>>

varsRows == <<rowHeap, rows, flatRows, rowsById, passes, lastPass>>

varsUtil == <<exCall, flCall, mdCall>>

vars == <<pathObjCache, gbCall, gbCount, columns, data, rowIdKind, accessValueHooks,
          pc, colHeap, linked, allColumns, headerGroups, rowHeap, rows, flatRows,
          rowsById, passes, lastPass, cellRead, exCall, flCall, mdCall>>

----------------------------------------------------------------------------
(* Path resolver: inputs and calls *)

MaxCalls == 2

kA == <<"a">>

kB == <<"b">>

kC == <<"c">>

kAB == <<"a", ".", "b">>

kABC == <<"a", ".", "b", ".", "c">>

kA0B == <<"a", "[", "0", "]", ".", "b">>

kA_B == <<"a", "_", "b">>

kD == <<"d">>

kNull == <<"n", "u", "l", "l">>

\* the objects getBy is called on: nested objects, arrays, sparse and falsy leaves
GetByObjs ==
  { Undef, Null,
    Obj(kA :> Num(1)), Obj(kA :> Null), Obj(kA :> Num(0)), Obj(kA :> Bool(FALSE)),
    Obj(kA :> Str(<<>>)),
    Obj(kA :> Obj(kB :> Num(1))),
    Obj(kA :> Obj(kB :> Obj(kC :> Num(2)))),
    Obj(kA :> Arr(<<Obj(kB :> Num(3))>>)),
    Obj((kA_B :> Num(4)) @@ (kA :> Obj(kB :> Num(1)))),
    Obj(kB :> Num(5)),
    Obj(kNull :> Num(2)) }

\* the paths: dotted and bracket strings, arrays of keys, nested arrays, empty
\* paths, and arrays holding undefined or null
GetByPaths ==
  { Str(kA), Str(kB), Str(kAB), Str(kABC), Str(kA0B),
    Arr(<<Str(kA)>>), Arr(<<Str(kA), Str(kB)>>), Arr(<<Str(kA), Num(0), Str(kB)>>),
    Arr(<<Arr(<<Str(kA)>>), Str(kB)>>),
    Str(<<>>), Undef, Arr(<<>>),
    Arr(<<Undef>>), Arr(<<Null>>) }

GetByDefs == { Undef, Str(kD) }

InitGetBy ==
  /\ pathObjCache = <<>>
  /\ gbCall = [called |-> FALSE]
  /\ gbCount = 0
  /\ columns = <<>>
  /\ data = <<>>
  /\ rowIdKind = "path"
  /\ accessValueHooks = <<>>
  /\ pc = "start"
  /\ colHeap = <<>>
  /\ linked = <<>>
  /\ allColumns = <<>>
  /\ headerGroups = <<>>
  /\ rowHeap = <<>>
  /\ rows = <<>>
  /\ flatRows = <<>>
  /\ rowsById = <<>>
  /\ passes = 0
  /\ lastPass = [called |-> FALSE]
  /\ cellRead = [called |-> FALSE]
  /\ exCall = [called |-> FALSE]
  /\ flCall = [called |-> FALSE]
  /\ mdCall = [called |-> FALSE]

\* one call getBy(obj, path, def)
GetBy(obj, path, def) ==
  /\ gbCount < MaxCalls
  /\ LET r == getBy(obj, path, def, pathObjCache)
     IN /\ pathObjCache' = r.cache
        /\ gbCall' = [called |-> TRUE, obj |-> obj, path |-> path, def |-> def,
                      ret |-> r.ret, threw |-> r.threw, parsed |-> r.parsed]
  /\ gbCount' = gbCount + 1
  /\ UNCHANGED <<varsInput, pc, varsCols, varsRows, cellRead, varsUtil>>

NextGetBy ==
  \E obj \in GetByObjs, path \in GetByPaths, def \in GetByDefs : GetBy(obj, path, def)

SpecGetBy == InitGetBy /\ [][NextGetBy]_vars

----------------------------------------------------------------------------
(* Table materialization: inputs *)

MaxNodes == 4

MaxRows == 3

MaxPasses == 3

kX == <<"x">>

kY == <<"y">>

kG == <<"g">>

\* the ancestors of node j, itself included, under the parent vector p
RECURSIVE AncSelf(_, _)
AncSelf(p, j) == IF j = 0 THEN {} ELSE {j} \cup AncSelf(p, p[j])

\* the parent vectors of the ordered forests with n nodes numbered in pre-order
ParVectors(n) ==
  { p \in [1..n -> 0..(n - 1)] :
      \A i \in 1..n : /\ p[i] < i
                      /\ (i > 1 => p[i] \in AncSelf(p, i - 1) \cup {0}) }

\* the children of node j, in order
Children(p, n, j) == SelectSeq([i \in 1..n |-> i], LAMBDA i : p[i] = j)

Col(id, accessor, Header, cols) ==
  [id |-> id, accessor |-> accessor, Header |-> Header, columns |-> cols]

\* single columns over every combination of id, accessor, Header and columns
RichColumns ==
  { Col(id, accessor, Header, cols) :
      id \in {Undef, Str(<<>>), Str(kC)},
      accessor \in {Undef, Str(<<>>), Str(kA), Str(kAB), Fn("byIndex")},
      Header \in {Undef, Str(<<>>), Str(kB), Fn("render")},
      cols \in {Undef, Arr(<<>>)} }

\* the node kinds of the column trees: a string accessor, a string Header,
\* and a column with nothing an id can be resolved from
TreeColumns ==
  { Col(Undef, Str(kA), Undef, Undef),
    Col(Undef, Undef, Str(kB), Undef),
    Col(Undef, Undef, Fn("render"), Undef) }

\* the column list under node j of the forest (p, kinds)
RECURSIVE BuildColumns(_, _, _, _)
BuildColumns(p, n, kinds, j) ==
  LET ch == Children(p, n, j)
  IN [i \in 1..Len(ch) |->
        IF Children(p, n, ch[i]) = <<>> THEN kinds[ch[i]]
        ELSE [kinds[ch[i]] EXCEPT !.columns = Arr(BuildColumns(p, n, kinds, ch[i]))]]

ColumnTrees ==
  UNION { { BuildColumns(p, n, kinds, 0) : p \in ParVectors(n), kinds \in [1..n -> TreeColumns] } :
          n \in 0..MaxNodes }

\* the column configurations the row materializer is exercised with
RowColumnConfigs ==
  { <<Col(Undef, Str(kAB), Undef, Undef), Col(Undef, Undef, Str(kB), Undef)>>,
    <<Col(Undef, Undef, Str(kG),
          Arr(<<Col(Str(kC), Fn("byIndex"), Undef, Undef),
                Col(Undef, Str(kAB), Undef, Undef)>>))>>,
    <<Col(Undef, Str(kA), Undef, Undef), Col(Str(kC), Fn("byRowId"), Undef, Undef)>> }

\* a data item: its key k, a nested value under a.b and, for a parent, its sub-rows
Item(k, n, subs) ==
  IF subs = <<>>
    THEN Obj((kK :> Str(k)) @@ (kA :> Obj(kB :> Num(n))))
    ELSE Obj((kK :> Str(k)) @@ (kA :> Obj(kB :> Num(n))) @@ (kSubRows :> Arr(subs)))

\* the data array under node j of the forest (p, keys); item i carries value i
RECURSIVE BuildData(_, _, _, _)
BuildData(p, n, keys, j) ==
  LET ch == Children(p, n, j)
  IN [i \in 1..Len(ch) |-> Item(keys[ch[i]], ch[i], BuildData(p, n, keys, ch[i]))]

DataSets ==
  UNION { { BuildData(p, n, keys, 0) : p \in ParVectors(n), keys \in [1..n -> {kX, kY}] } :
          n \in 0..MaxRows }
  \cup { <<Obj((kK :> Str(kX)) @@ (kSubRows :> Arr(<<>>)))>> }

\* the data the column-rich configurations are materialized over
SmallData == <<Item(kX, 1, <<Item(kY, 2, <<>>)>>)>>

HookLists == { <<>>, <<"h1">>, <<"h1", "h2">> }

DefaultColumns == { Undef, Obj([Header |-> Fn("default")]) }

CellReads == { "map", "filter", "forEach", "reduce", "iterate", "index", "length" }

----------------------------------------------------------------------------
(* Table materialization: operations *)

Init ==
  /\ pathObjCache = <<>>
  /\ gbCall = [called |-> FALSE]
  /\ gbCount = 0
  /\ \/ /\ columns \in { <<c>> : c \in RichColumns }
        /\ data = SmallData
        /\ rowIdKind = "path"
        /\ accessValueHooks = <<"h1">>
     \/ /\ columns \in ColumnTrees
        /\ data = <<>>
        /\ rowIdKind = "path"
        /\ accessValueHooks = <<>>
     \/ /\ columns \in RowColumnConfigs
        /\ data \in DataSets
        /\ rowIdKind \in {"path", "key"}
        /\ accessValueHooks \in HookLists
  /\ pc = "start"
  /\ colHeap = <<>>
  /\ linked = <<>>
  /\ allColumns = <<>>
  /\ headerGroups = <<>>
  /\ rowHeap = <<>>
  /\ rows = <<>>
  /\ flatRows = <<>>
  /\ rowsById = <<>>
  /\ passes = 0
  /\ lastPass = [called |-> FALSE]
  /\ cellRead = [called |-> FALSE]
  /\ exCall = [called |-> FALSE]
  /\ flCall = [called |-> FALSE]
  /\ mdCall = [called |-> FALSE]

\* columns = linkColumnStructure(userColumns); the Error thrown by
\* assignColumnAccessor ends the materialization before anything else runs
LinkColumns ==
  /\ pc = "start"
  /\ LET r == linkColumnStructure(columns, Undef, 0, <<>>)
     IN /\ pc' = IF r.threw THEN "configError" ELSE "linked"
        /\ colHeap' = IF r.threw THEN <<>> ELSE r.heap
        /\ linked' = IF r.threw THEN <<>> ELSE r.refs
  /\ UNCHANGED <<varsGetBy, varsInput, allColumns, headerGroups, varsRows, cellRead, varsUtil>>

\* allColumns = flattenColumns(columns)
FlattenColumns ==
  /\ pc = "linked"
  /\ allColumns' = flattenColumns(linked, colHeap)
  /\ pc' = "flat"
  /\ UNCHANGED <<varsGetBy, varsInput, colHeap, linked, headerGroups, varsRows, cellRead, varsUtil>>

\* headerGroups = makeHeaderGroups(allColumns, defaultColumn)
MakeHeaderGroups(defaultColumn) ==
  /\ pc = "flat"
  /\ LET r == makeHeaderGroups(allColumns, defaultColumn, colHeap)
     IN /\ pc' = IF r.threw THEN "threw" ELSE "grouped"
        /\ colHeap' = IF r.threw THEN colHeap ELSE r.heap
        /\ headerGroups' = IF r.threw THEN <<>> ELSE r.headerGroups
  /\ UNCHANGED <<varsGetBy, varsInput, linked, allColumns, varsRows, cellRead, varsUtil>>

\* the accumulators after a call that ended in state st
RowsAccessed(c, st) ==
  /\ rowHeap' = st.heap
  /\ rows' = st.parentRows
  /\ flatRows' = st.flatRows
  /\ rowsById' = st.rowsById
  /\ pathObjCache' = st.cache
  /\ lastPass' = [called |-> TRUE, column |-> c, threw |-> st.threw]
  /\ pc' = IF st.threw THEN "threw" ELSE "rows"

\* the column the next accessRowsForColumn call is for
NextColumn == allColumns[(passes % Len(allColumns)) + 1]

\* accessRowsForColumn for the next column of allColumns; after the last
\* column the passes start over with the same accumulators
AccessRowsForColumn ==
  /\ pc \in {"grouped", "rows"}
  /\ passes < MaxPasses
  /\ allColumns # <<>>
  /\ RowsAccessed(NextColumn,
       accessRowsForColumn(
         [data |-> data, column |-> colHeap[NextColumn.val], getRowId |-> rowIdKind,
          hooks |-> accessValueHooks],
         [heap |-> rowHeap, parentRows |-> rows, flatRows |-> flatRows,
          rowsById |-> rowsById, cache |-> pathObjCache, threw |-> FALSE]))
  /\ passes' = passes + 1
  /\ UNCHANGED <<gbCall, gbCount, varsInput, varsCols, cellRead, varsUtil>>

\* what reading row.cells through `how` does: an own property that holds
\* unpreparedAccessWarning throws, everything else is the plain array [{}]
ReadCellsOf(cells, how) ==
  IF how \in DOMAIN cells /\ cells[how] = unpreparedAccessWarning
    THEN [threw |-> TRUE, seen |-> 0]
    ELSE [threw |-> FALSE, seen |-> Len(cells.elems)]

\* once every column was accessed, the renderer reads the cells of a row that
\* was never prepared
ReadCells(r, how) ==
  /\ pc = "rows"
  /\ passes = Len(allColumns)
  /\ LET res == ReadCellsOf(rowHeap[r.val].cells, how)
     IN cellRead' = [called |-> TRUE, row |-> r, how |-> how,
                     threw |-> res.threw, seen |-> res.seen]
  /\ pc' = "rendered"
  /\ UNCHANGED <<varsGetBy, varsInput, varsCols, varsRows, varsUtil>>

\* findMaxDepth(columns) on the column configuration
FindMaxDepth ==
  /\ pc = "grouped"
  /\ mdCall' = [called |-> TRUE, ret |-> Num(findMaxDepth(columns, 0))]
  /\ pc' = "measured"
  /\ UNCHANGED <<varsGetBy, varsInput, varsCols, varsRows, cellRead, exCall, flCall>>

Next ==
  \/ LinkColumns
  \/ FlattenColumns
  \/ \E defaultColumn \in DefaultColumns : MakeHeaderGroups(defaultColumn)
  \/ AccessRowsForColumn
  \/ \E i \in 1..Len(flatRows), how \in CellReads : ReadCells(flatRows[i], how)
  \/ FindMaxDepth

Spec == Init /\ [][Next]_vars

----------------------------------------------------------------------------
(* Row expansion: inputs and calls *)

kExpanded == <<"e", "x", "p", "a", "n", "d", "e", "d">>

kId0 == <<"0">>

kId1 == <<"1">>

kId00 == <<"0", ".", "0">>

kId01 == <<"0", ".", "1">>

\* a data item that may carry the manual flag `expanded: true`
FlagItem(flag, n, subs) ==
  Obj((IF flag THEN kExpanded :> Bool(TRUE) ELSE <<>>)
      @@ (kA :> Num(n))
      @@ (IF subs = <<>> THEN <<>> ELSE kSubRows :> Arr(subs)))

\* the data array under node j of the forest (p, flags)
RECURSIVE BuildFlagData(_, _, _, _)
BuildFlagData(p, n, flags, j) ==
  LET ch == Children(p, n, j)
  IN [i \in 1..Len(ch) |-> FlagItem(flags[ch[i]], ch[i], BuildFlagData(p, n, flags, ch[i]))]

FlagDataSets ==
  UNION { { BuildFlagData(p, n, flags, 0) : p \in ParVectors(n), flags \in [1..n -> BOOLEAN] } :
          n \in 0..MaxRows }

\* the expanded states: flat maps from row id to Boolean, a row whose own
\* entry is set under a collapsed parent, and nested path-index objects
ExpandedStates ==
  { Obj(<<>>),
    Obj(kId0 :> Bool(TRUE)),
    Obj(kId0 :> Bool(FALSE)),
    Obj(kId1 :> Bool(TRUE)),
    Obj(kId00 :> Bool(TRUE)),
    Obj((kId0 :> Bool(TRUE)) @@ (kId00 :> Bool(TRUE))),
    Obj((kId0 :> Bool(TRUE)) @@ (kId01 :> Bool(TRUE)) @@ (kId1 :> Bool(TRUE))),
    Obj(kId0 :> Obj(kId0 :> Bool(TRUE))),
    Obj((kId0 :> Obj(kId1 :> Bool(TRUE))) @@ (kId1 :> Bool(TRUE))) }

ExpandOptions ==
  { [manualExpandedKey |-> key, expanded |-> expanded, expandSubRows |-> sub] :
      key \in {Str(kExpanded), Undef},
      expanded \in ExpandedStates,
      sub \in {Undef, Bool(TRUE), Bool(FALSE)} }

\* the one column the rows are materialized for before they are expanded
ExpandColumns == <<Col(Undef, Str(kA), Undef, Undef)>>

\* the rows of data d after linkColumnStructure and accessRowsForColumn
MaterializedRows(d) ==
  accessRowsForColumn(
    [data |-> d,
     column |-> linkColumnStructure(ExpandColumns, Undef, 0, <<>>).heap[1],
     getRowId |-> "path", hooks |-> <<>>],
    [heap |-> <<>>, parentRows |-> <<>>, flatRows |-> <<>>, rowsById |-> <<>>,
     cache |-> <<>>, threw |-> FALSE])

\* the accumulators hold the materialized rows st
RowsLoaded(st) ==
  /\ rowHeap = st.heap
  /\ rows = st.parentRows
  /\ flatRows = st.flatRows
  /\ rowsById = st.rowsById
  /\ pathObjCache = st.cache

\* the column results are those of linking lk
ColumnsLoaded(lk) ==
  /\ colHeap = lk.heap
  /\ linked = lk.refs
  /\ allColumns = flattenColumns(lk.refs, lk.heap)

InitExpand ==
  /\ gbCall = [called |-> FALSE]
  /\ gbCount = 0
  /\ columns = ExpandColumns
  /\ data \in FlagDataSets
  /\ rowIdKind = "path"
  /\ accessValueHooks = <<>>
  /\ pc = "rows"
  /\ ColumnsLoaded(linkColumnStructure(ExpandColumns, Undef, 0, <<>>))
  /\ headerGroups = <<[headers |-> <<Ref(1)>>]>>
  /\ RowsLoaded(MaterializedRows(data))
  /\ passes = 1
  /\ lastPass = [called |-> TRUE, column |-> Ref(1), threw |-> FALSE]
  /\ cellRead = [called |-> FALSE]
  /\ exCall = [called |-> FALSE]
  /\ flCall = [called |-> FALSE]
  /\ mdCall = [called |-> FALSE]

\* the result of an expandRows call
RowsExpanded(opts, st) ==
  /\ rowHeap' = st.heap
  /\ exCall' = [called |-> TRUE, opts |-> opts, out |-> st.out]

\* expandedRows = expandRows(rows, { manualExpandedKey, expanded, expandSubRows })
ExpandRows(opts) ==
  /\ pc = "rows"
  /\ RowsExpanded(opts, expandRows(rows, opts, rowHeap))
  /\ pc' = "expanded"
  /\ UNCHANGED <<varsGetBy, varsInput, varsCols, rows, flatRows, rowsById, passes,
                 lastPass, cellRead, flCall, mdCall>>

\* expandRows called again over the same rows after the expanded state changed
ExpandRowsAgain(expanded) ==
  /\ pc = "expanded"
  /\ RowsExpanded([exCall.opts EXCEPT !.expanded = expanded],
                  expandRows(rows, [exCall.opts EXCEPT !.expanded = expanded], rowHeap))
  /\ pc' = "reexpanded"
  /\ UNCHANGED <<varsGetBy, varsInput, varsCols, rows, flatRows, rowsById, passes,
                 lastPass, cellRead, flCall, mdCall>>

NextExpand ==
  \/ \E opts \in ExpandOptions : ExpandRows(opts)
  \/ \E expanded \in ExpandedStates : ExpandRowsAgain(expanded)

SpecExpand == InitExpand /\ [][NextExpand]_vars

----------------------------------------------------------------------------
(* Filter helpers: inputs and calls *)

kBetween == <<"b", "e", "t", "w", "e", "e", "n">>
kFuzzy == <<"f", "u", "z", "z", "y">>
kNope == <<"n", "o", "p", "e">>

\* the `filter` of a column: a function, the name of a filter type, or nothing
Filters == { Fn("customFilter"), Str(kText), Str(kBetween), Str(kFuzzy), Str(kNope), Undef }

\* the filterTypes option: filter types the user adds or overrides
UserFilterTypes ==
  { Obj(<<>>),
    Obj(kText :> Fn("userText")),
    Obj(kFuzzy :> Fn("userFuzzy")),
    Obj(kText :> Fn("userText") @@ kBetween :> Fn("userBetween")) }

\* the built-in filter types, with and without `text`
BuiltInFilterTypes ==
  { Obj(kText :> Fn("text") @@ kBetween :> Fn("between")),
    Obj(kText :> Fn("text")),
    Obj(kBetween :> Fn("between")) }

AutoRemoves == { Undef, Fn("falsy"), Fn("never"), Fn("echo"), Fn("byColumn") }

FilterValues == { Undef, Null, Str(<<>>), Str(kA), Num(0), Num(1), Bool(FALSE), Bool(TRUE) }

FilterColumns ==
  { [id |-> Str(kA), autoRemove |-> Bool(TRUE)], [id |-> Str(kB), autoRemove |-> Bool(FALSE)] }

InitFilters ==
  /\ pathObjCache = <<>>
  /\ gbCall = [called |-> FALSE]
  /\ gbCount = 0
  /\ columns = <<>>
  /\ data = <<>>
  /\ rowIdKind = "path"
  /\ accessValueHooks = <<>>
  /\ pc = "filters"
  /\ colHeap = <<>>
  /\ linked = <<>>
  /\ allColumns = <<>>
  /\ headerGroups = <<>>
  /\ rowHeap = <<>>
  /\ rows = <<>>
  /\ flatRows = <<>>
  /\ rowsById = <<>>
  /\ passes = 0
  /\ lastPass = [called |-> FALSE]
  /\ cellRead = [called |-> FALSE]
  /\ exCall = [called |-> FALSE]
  /\ flCall = [called |-> FALSE]
  /\ mdCall = [called |-> FALSE]

\* one call getFilterMethod(filter, userFilterTypes, filterTypes)
GetFilterMethod(filter, userFilterTypes, filterTypes) ==
  /\ pc = "filters"
  /\ flCall' = [called |-> TRUE, op |-> "getFilterMethod",
                args |-> <<filter, userFilterTypes, filterTypes>>,
                ret |-> getFilterMethod(filter, userFilterTypes, filterTypes)]
  /\ UNCHANGED <<varsGetBy, varsInput, pc, varsCols, varsRows, cellRead, exCall, mdCall>>

\* one call shouldAutoRemoveFilter(autoRemove, value, column)
ShouldAutoRemoveFilter(autoRemove, value, column) ==
  /\ pc = "filters"
  /\ flCall' = [called |-> TRUE, op |-> "shouldAutoRemoveFilter",
                args |-> <<autoRemove, value, column>>,
                ret |-> shouldAutoRemoveFilter(autoRemove, value, column)]
  /\ UNCHANGED <<varsGetBy, varsInput, pc, varsCols, varsRows, cellRead, exCall, mdCall>>

NextFilters ==
  \/ \E filter \in Filters, u \in UserFilterTypes, b \in BuiltInFilterTypes :
       GetFilterMethod(filter, u, b)
  \/ \E autoRemove \in AutoRemoves, value \in FilterValues, column \in FilterColumns :
       ShouldAutoRemoveFilter(autoRemove, value, column)

SpecFilters == InitFilters /\ [][NextFilters]_vars

----------------------------------------------------------------------------
(* Path resolver: properties *)

\* the key sequence k1..kn a path denotes: a string is cut at dots and brackets,
\* an array lists its keys, an absent or empty path has no keys
PathKeys(path) ==
  CASE path.type = "string" ->
         IF path.val = <<>> THEN <<>>
         ELSE Split(ReplaceAll(ReplaceAll(path.val, "[", <<".">>), "]", <<>>), ".")
    [] path.type = "array" ->
         LET flat == flattenDeep(path) IN [i \in 1..Len(flat) |-> String(flat[i])]
    [] OTHER -> <<>>

\* a dotted/bracket string or a flat array of keys
IsKeyPath(path) ==
  \/ path.type = "string" /\ path.val # <<>>
  \/ /\ path.type = "array"
     /\ path.val # <<>>
     /\ \A i \in 1..Len(path.val) : path.val[i].type \in {"string", "number"}

C6_ResolutionRecovered ==
  gbCall.called =>
    LET w == ReducePath(PathKeys(gbCall.path), gbCall.obj)
    IN /\ ~gbCall.threw
       /\ gbCall.ret = (IF w.threw \/ ~Defined(w.val) THEN gbCall.def ELSE w.val)

----------------------------------------------------------------------------
(* Column materializer: properties *)

TypeOK ==
  pc \in {"start", "configError", "linked", "flat", "grouped", "rows", "rendered", "threw",
          "expanded", "filters", "measured", "reexpanded"}

\* the nodes of a column configuration in pre-order, the order in which
\* linkColumnStructure copies them
RECURSIVE PreOrder(_)
PreOrder(cols) ==
  IF cols = <<>> THEN <<>>
  ELSE <<Head(cols)>>
       \o (IF Head(cols).columns.type = "array" THEN PreOrder(Head(cols).columns.val)
           ELSE <<>>)
       \o PreOrder(Tail(cols))

\* linkColumnStructure returned: colHeap[i] is the copy of PreOrder(columns)[i]
ColumnsLinked == pc \notin {"start", "configError"}

NonEmptyString(v) == v.type = "string" /\ v.val # <<>>

\* C1: a truthy explicit id is kept; without one a non-empty string accessor
\* becomes the id unchanged; without either a non-empty string Header becomes
\* the id (priority: id, then string accessor, then string Header).
C1_IdResolution ==
  ColumnsLinked =>
    LET nodes == PreOrder(columns)
    IN \A i \in 1..Len(nodes) :
      LET c == nodes[i]
      IN /\ Truthy(c.id) => colHeap[i].id = c.id
         /\ (~Truthy(c.id) /\ NonEmptyString(c.accessor)) => colHeap[i].id = c.accessor
         /\ (~Truthy(c.id) /\ ~NonEmptyString(c.accessor) /\ NonEmptyString(c.Header))
              => colHeap[i].id = c.Header

\* C1 as stated: any string accessor, the empty string included, becomes the
\* id of a column without an id.
C1_AnyStringAccessor ==
  ColumnsLinked =>
    LET nodes == PreOrder(columns)
    IN \A i \in 1..Len(nodes) :
      LET c == nodes[i]
      IN /\ Truthy(c.id) => colHeap[i].id = c.id
         /\ (~Truthy(c.id) /\ c.accessor.type = "string") => colHeap[i].id = c.accessor
         /\ (~Truthy(c.id) /\ c.accessor.type # "string" /\ NonEmptyString(c.Header))
              => colHeap[i].id = c.Header

\* a linked column that has both a string accessor and a string Header and no
\* id, and got the accessor as its id
C1_Witness ==
  /\ pc = "linked"
  /\ \E i \in 1..Len(PreOrder(columns)) :
       /\ ~Truthy(PreOrder(columns)[i].id)
       /\ PreOrder(columns)[i].accessor = Str(kAB)
       /\ PreOrder(columns)[i].Header = Str(kB)
       /\ colHeap[i].id = Str(kAB)

\* nothing an id can be resolved from
Unresolvable(c) ==
  ~Truthy(c.id) /\ ~NonEmptyString(c.accessor) /\ ~NonEmptyString(c.Header)

\* C2: linking throws exactly when some node, leaf or group, has no truthy id,
\* no non-empty string accessor and no non-empty string Header; otherwise every
\* node of the result has a non-empty id; and the error comes before any row
\* is accessed.
C2_FailFast ==
  pc # "start" =>
    LET nodes == PreOrder(columns)
    IN /\ (pc = "configError") <=> (\E i \in 1..Len(nodes) : Unresolvable(nodes[i]))
       /\ ColumnsLinked =>
            /\ Len(colHeap) >= Len(nodes)
            /\ \A i \in 1..Len(nodes) : Truthy(colHeap[i].id)
       /\ (pc = "configError") => (passes = 0 /\ rowHeap = <<>> /\ flatRows = <<>>)

\* C2 as stated: the throw happens exactly when a node has no truthy id, no
\* string accessor at all and no non-empty string Header.
C2_ThrowsIffNoStringAccessor ==
  pc # "start" =>
    ((pc = "configError") <=>
       (\E i \in 1..Len(PreOrder(columns)) :
          LET c == PreOrder(columns)[i]
          IN ~Truthy(c.id) /\ c.accessor.type # "string" /\ ~NonEmptyString(c.Header)))

\* linking a tree threw on a group column nothing resolves an id for
C2_Witness ==
  /\ pc = "configError"
  /\ \E i \in 1..Len(PreOrder(columns)) :
       /\ Unresolvable(PreOrder(columns)[i])
       /\ PreOrder(columns)[i].columns.type = "array"
       /\ PreOrder(columns)[i].columns.val # <<>>

\* C3: no two distinct columns of the materialized tree have the same id.
C3_UniqueIds ==
  ColumnsLinked =>
    \A i, j \in 1..Len(PreOrder(columns)) : i # j => colHeap[i].id # colHeap[j].id

----------------------------------------------------------------------------
(* Header-group builder: properties *)

\* the number of leaf columns reachable through the nested headers of a header
RECURSIVE Span(_)
Span(ref) ==
  IF "headers" \notin DOMAIN colHeap[ref.val] THEN 1
  ELSE LET hs == colHeap[ref.val].headers.val
           RECURSIVE Sum(_)
           Sum(k) == IF k = 0 THEN 0 ELSE Span(hs[k]) + Sum(k - 1)
       IN Sum(Len(hs))

\* the combined span of a list of headers
RECURSIVE SpanSum(_)
SpanSum(hs) == IF hs = <<>> THEN 0 ELSE Span(Head(hs)) + SpanSum(Tail(hs))

\* the headers lists of a list of headers, concatenated in order
RECURSIVE HeadersBelow(_)
HeadersBelow(hs) ==
  IF hs = <<>> THEN <<>>
  ELSE colHeap[Head(hs).val].headers.val \o HeadersBelow(Tail(hs))

\* C4: every header group has headers whose combined span is the number of
\* leaf columns; the headers lists of a group partition, in order, the headers
\* of the group directly below it, and the lowest group is the leaf columns.
C4_Rectangular ==
  headerGroups # <<>> =>
    /\ \A g \in 1..Len(headerGroups) : SpanSum(headerGroups[g].headers) = Len(allColumns)
    /\ \A g \in 1..(Len(headerGroups) - 1) :
         HeadersBelow(headerGroups[g].headers) = headerGroups[g + 1].headers
    /\ headerGroups[Len(headerGroups)].headers = allColumns

\* header groups over leaves of unequal depth: a placeholder stands above a
\* shallow leaf and some header spans two columns
C4_Witness ==
  /\ pc = "grouped"
  /\ Len(headerGroups) >= 2
  /\ \E h \in 1..Len(colHeap) : "placeholderOf" \in DOMAIN colHeap[h]
  /\ \E g \in 1..Len(headerGroups) :
       \E k \in 1..Len(headerGroups[g].headers) :
         /\ "headers" \in DOMAIN colHeap[headerGroups[g].headers[k].val]
         /\ Len(colHeap[headerGroups[g].headers[k].val].headers.val) >= 2

----------------------------------------------------------------------------
(* Row materializer: properties *)

\* the sub-row items of a data item
SubItems(item) ==
  IF item.type = "object" /\ kSubRows \in DOMAIN item.val THEN item.val[kSubRows].val
  ELSE <<>>

\* the id a data item is expected to get, from its index and its parent's id
IdOf(kind, item, index, parentId) ==
  IF kind = "path"
    THEN IF Defined(parentId) THEN Str(parentId.val \o <<".">> \o NatToStr(index))
         ELSE Str(NatToStr(index))
    ELSE item.val[kK]

\* the data items from item i on in pre-order, each with its expected id,
\* index and depth
RECURSIVE Expect(_, _, _, _)
Expect(items, i, depth, parentId) ==
  IF i > Len(items) THEN <<>>
  ELSE <<[id |-> IdOf(rowIdKind, items[i], i - 1, parentId), original |-> items[i],
          index |-> Num(i - 1), depth |-> Num(depth)]>>
       \o Expect(SubItems(items[i]), 1, depth + 1, IdOf(rowIdKind, items[i], i - 1, parentId))
       \o Expect(items, i + 1, depth, parentId)

ExpectedRows == Expect(data, 1, 0, Undef)

\* getRowId gives the items of the data tree pairwise distinct ids
DistinctIds ==
  LET e == ExpectedRows
  IN \A i, j \in 1..Len(e) : i # j => e[i].id # e[j].id

Row(ref) == rowHeap[ref.val]

\* C7: after the first accessRowsForColumn over data whose items get distinct
\* ids, rows holds one row per top-level item in data order, flatRows every row
\* once in pre-order, rowsById maps exactly the ids of flatRows to those rows,
\* and a sub-row has its parent's depth + 1 and its position as index.
C7_RowOutputs ==
  (passes = 1 /\ ~lastPass.threw /\ DistinctIds) =>
    LET e == ExpectedRows
    IN /\ Len(flatRows) = Len(e)
       /\ \A i \in 1..Len(flatRows) :
            LET r == Row(flatRows[i])
            IN /\ r.id = e[i].id
               /\ r.original = e[i].original
               /\ r.index = e[i].index
               /\ r.depth = e[i].depth
               /\ rowsById[String(r.id)] = flatRows[i]
               /\ \A j \in 1..Len(flatRows) : i # j => flatRows[i] # flatRows[j]
               /\ Len(SubItems(r.original)) > 0 =>
                    /\ r.subRows.type = "array"
                    /\ Len(r.subRows.val) = Len(SubItems(r.original))
                    /\ \A k \in 1..Len(r.subRows.val) :
                         /\ Row(r.subRows.val[k]).depth = Num(r.depth.val + 1)
                         /\ Row(r.subRows.val[k]).index = Num(k - 1)
                         /\ Row(r.subRows.val[k]).original = SubItems(r.original)[k]
       /\ DOMAIN rowsById = { String(e[i].id) : i \in 1..Len(e) }
       /\ Len(rows) = Len(data)
       /\ \A i \in 1..Len(rows) :
            /\ Row(rows[i]).original = data[i]
            /\ Row(rows[i]).depth = Num(0)
            /\ \E j \in 1..Len(flatRows) : flatRows[j] = rows[i]

\* the first call walked a tree with two levels of sub-rows
C7_Witness ==
  /\ passes = 1
  /\ ~lastPass.threw
  /\ DistinctIds
  /\ Len(flatRows) = 3
  /\ Len(rows) = 1
  /\ \E i \in 1..Len(flatRows) : Row(flatRows[i]).depth = Num(2)

\* everything of a row but its values
RowFrame(row) == [row EXCEPT !.values = <<>>]

\* no two entries of flatRows are rows with the same id
NoRowTwice ==
  \A i, j \in 1..Len(flatRows) : i # j => Row(flatRows[i]).id # Row(flatRows[j]).id

\* C8: after the first call the contents and order of rows, flatRows and every
\* row's subRows, the key set of rowsById and every row's id, index, depth and
\* original never change; later calls create no row object and only add or
\* overwrite entries of row.values; no row is created or appended twice for
\* the same id.
C8_IdempotentReentry ==
  [][/\ NoRowTwice'
     /\ passes >= 1 =>
          /\ rows' = rows
          /\ flatRows' = flatRows
          /\ rowsById' = rowsById
          /\ Len(rowHeap') = Len(rowHeap)
          /\ \A a \in 1..Len(rowHeap) :
               /\ RowFrame(rowHeap'[a]) = RowFrame(rowHeap[a])
               /\ DOMAIN rowHeap[a].values \subseteq DOMAIN rowHeap'[a].values]_vars

\* a second call went over nested rows that already existed and added a value
C8_Witness ==
  /\ passes = 2
  /\ pc = "rows"
  /\ Len(flatRows) >= 2
  /\ \E i \in 1..Len(flatRows) :
       /\ Row(flatRows[i]).depth = Num(1)
       /\ Cardinality(DOMAIN Row(flatRows[i]).values) = 2

\* the column of the last accessRowsForColumn call
LastColumn == colHeap[lastPass.column.val]

\* h_n(...h_1(c.accessor(r.original, r.index, r))...) for row r and column c
HookedAccessorValue(c, r) ==
  reduceHooks(accessValueHooks,
              ApplyAccessor(c.accessor, r.original, r.index.val, r, <<>>).ret)

\* C9: provided getRowId gives the data items pairwise distinct ids, after
\* accessRowsForColumn for a column c with an accessor every row r has
\* r.values[c.id] = h_n(...h_1(c.accessor(r.original, r.index, r))...).
C9_CellValue ==
  (lastPass.called /\ ~lastPass.threw /\ DistinctIds /\ Truthy(LastColumn.accessor)) =>
    /\ Len(flatRows) = Len(ExpectedRows)
    /\ \A i \in 1..Len(flatRows) :
         ValuesGet(Row(flatRows[i]).values, String(LastColumn.id))
           = HookedAccessorValue(LastColumn, Row(flatRows[i]))

\* C9 as stated, for any ids getRowId gives.
C9_CellValueAnyIds ==
  (lastPass.called /\ ~lastPass.threw /\ Truthy(LastColumn.accessor)) =>
    \A i \in 1..Len(flatRows) :
      ValuesGet(Row(flatRows[i]).values, String(LastColumn.id))
        = HookedAccessorValue(LastColumn, Row(flatRows[i]))

\* nested rows got the value of a path accessor run through two hooks
C9_Witness ==
  /\ lastPass.called
  /\ ~lastPass.threw
  /\ DistinctIds
  /\ Truthy(LastColumn.accessor)
  /\ LastColumn.accessor.val = "getBy"
  /\ accessValueHooks = <<"h1", "h2">>
  /\ rowIdKind = "key"
  /\ \E i \in 1..Len(flatRows) :
       /\ Row(flatRows[i]).depth = Num(1)
       /\ ValuesGet(Row(flatRows[i]).values, String(LastColumn.id))
            = ApplyHook("h2", ApplyHook("h1", Num(2)))

\* C10: every way of reading the cells of a row that was not prepared raises
\* an error at the point of access.
C10_UnpreparedReadsThrow == cellRead.called => cellRead.threw

----------------------------------------------------------------------------
(* Row expansion: properties *)

\* the rows that have ref among their subRows
ParentsOf(ref) ==
  { p \in 1..Len(rowHeap) :
      /\ Truthy(rowHeap[p].subRows)
      /\ \E k \in 1..Len(rowHeap[p].subRows.val) : rowHeap[p].subRows.val[k] = ref }

\* the ancestors of a row
RECURSIVE AncestorsOf(_)
AncestorsOf(ref) ==
  ParentsOf(ref) \cup UNION { AncestorsOf(Ref(p)) : p \in ParentsOf(ref) }

\* the raw data item of the row carries a truthy value under manualExpandedKey
ManualFlag(row, opts) ==
  /\ opts.manualExpandedKey.type = "string"
  /\ opts.manualExpandedKey.val \in DOMAIN row.original.val
  /\ Truthy(row.original.val[opts.manualExpandedKey.val])

\* the expanded state has a truthy entry under the row's id
StateFlag(row, opts) ==
  /\ row.id.val \in DOMAIN opts.expanded.val
  /\ Truthy(opts.expanded.val[row.id.val])

\* the row is expanded: by its raw data item or by the state
RowIsExpanded(row, opts) == ManualFlag(row, opts) \/ StateFlag(row, opts)

\* ref is in the sequence expandRows returned
Emitted(ref) == \E k \in 1..Len(exCall.out) : exCall.out[k] = ref

\* C11: with expandSubRows true (or left to its default) expandRows returns, in
\* pre-order, exactly the rows all of whose ancestors are expanded; with
\* expandSubRows false it returns exactly the top-level rows.
C11_ExpansionSequence ==
  exCall.called =>
    exCall.out =
      IF exCall.opts.expandSubRows = Bool(FALSE) THEN rows
      ELSE SelectSeq(flatRows,
                     LAMBDA r : \A a \in AncestorsOf(r) :
                                  RowIsExpanded(rowHeap[a], exCall.opts))

\* a sub-row was emitted behind its expanded parent and another row is absent
\* under a collapsed parent although the row itself is expanded
C11_Witness ==
  /\ exCall.called
  /\ \E k \in 1..Len(exCall.out) : Row(exCall.out[k]).depth = Num(1)
  /\ \E i \in 1..Len(flatRows) :
       /\ ~Emitted(flatRows[i])
       /\ RowIsExpanded(Row(flatRows[i]), exCall.opts)

\* the value the nested expanded state holds under the path index of a row:
\* expanded[i1][i2]...[in] for the row with id "i1.i2...in"
NestedEntry(row, opts) == ReducePath(Split(row.id.val, "."), opts.expanded)

NestedExpanded(row, opts) ==
  ManualFlag(row, opts)
    \/ (~NestedEntry(row, opts).threw /\ Truthy(NestedEntry(row, opts).val))

\* C12: with a nested path-index state such as { '3': { '5': true } } a nested
\* object under a row's path index expands that row and is consulted for its
\* sub-rows: a row whose path is set in the nested state is marked expanded
\* and its sub-rows are emitted.
C12_NestedExpandedState ==
  (exCall.called /\ exCall.opts.expandSubRows # Bool(FALSE)) =>
    \A i \in 1..Len(flatRows) :
      (\A a \in AncestorsOf(flatRows[i]) : NestedExpanded(rowHeap[a], exCall.opts))
        => /\ Emitted(flatRows[i])
           /\ NestedExpanded(Row(flatRows[i]), exCall.opts)
                => ("isExpanded" \in DOMAIN Row(flatRows[i]) /\ Truthy(Row(flatRows[i]).isExpanded))

----------------------------------------------------------------------------
(* Filter helpers: properties *)

\* a filter type is registered in the registry under the name
Registered(registry, name) ==
  /\ name.type = "string"
  /\ name.val \in DOMAIN registry.val
  /\ registry.val[name.val].type = "function"

C15_AutoRemoval ==
  (flCall.called /\ flCall.op = "shouldAutoRemoveFilter") =>
    LET autoRemove == flCall.args[1]
        value == flCall.args[2]
        column == flCall.args[3]
    IN IF autoRemove.type = "function"
         THEN flCall.ret = CallAutoRemove(autoRemove, value, column)
         ELSE /\ flCall.ret = Bool(value = Undef)
              /\ value \in {Null, Str(<<>>), Num(0), Bool(FALSE)} => flCall.ret = Bool(FALSE)

\* without an autoRemove function a falsy value other than undefined is kept
C15_Witness ==
  /\ flCall.called
  /\ flCall.op = "shouldAutoRemoveFilter"
  /\ flCall.args[1] = Undef
  /\ flCall.args[2] = Num(0)
  /\ flCall.ret = Bool(FALSE)

----------------------------------------------------------------------------
(* Column linkage and header-group order: properties *)

\* C16: in the output of linkColumnStructure every root column has depth 0 and
\* no parent, and every child c in the columns of an output node p has
\* c.depth = p.depth + 1 and c.parent = that output node p.
C16_ColumnLinkage ==
  ColumnsLinked =>
    /\ \A k \in 1..Len(linked) :
         /\ colHeap[linked[k].val].depth = Num(0)
         /\ colHeap[linked[k].val].parent = Undef
    /\ \A p \in 1..Len(PreOrder(columns)) :
         Truthy(colHeap[p].columns) =>
           \A k \in 1..Len(colHeap[p].columns.val) :
             /\ colHeap[colHeap[p].columns.val[k].val].depth = Num(colHeap[p].depth.val + 1)
             /\ colHeap[colHeap[p].columns.val[k].val].parent = Ref(p)

\* a tree three levels deep was linked
C16_Witness ==
  /\ ColumnsLinked
  /\ \E p \in 1..Len(PreOrder(columns)) :
       /\ colHeap[p].depth = Num(2)
       /\ colHeap[colHeap[p].parent.val].depth = Num(1)

\* two frontier columns have the same parent or the same placeholder origin
SameOrigin(c1, c2) ==
  IF Truthy(Field(c1, "parent")) /\ Truthy(Field(c2, "parent")) THEN c1.parent = c2.parent
  ELSE IF ~Truthy(Field(c1, "parent")) /\ ~Truthy(Field(c2, "parent")) THEN c1.id = c2.id
  ELSE FALSE

\* columns a and b stand next to each other in the headers list of one header
\* cell of hs
InOneCell(hs, a, b) ==
  \E h \in 1..Len(hs) :
    \E j \in 1..(Len(colHeap[hs[h].val].headers.val) - 1) :
      /\ colHeap[hs[h].val].headers.val[j] = a
      /\ colHeap[hs[h].val].headers.val[j + 1] = b

\* C17: in every header group above the leaf level no two adjacent headers
\* have the same originalId; consecutive frontier columns with the same parent
\* (or the same placeholder origin) are collected, in order, into the headers
\* list of one header cell.
C17_AdjacentParentsMerged ==
  pc = "grouped" =>
    \A g \in 1..(Len(headerGroups) - 1) :
      /\ \A k \in 1..(Len(headerGroups[g].headers) - 1) :
           colHeap[headerGroups[g].headers[k].val].originalId
             # colHeap[headerGroups[g].headers[k + 1].val].originalId
      /\ \A k \in 1..(Len(headerGroups[g + 1].headers) - 1) :
           SameOrigin(colHeap[headerGroups[g + 1].headers[k].val],
                      colHeap[headerGroups[g + 1].headers[k + 1].val])
             => InOneCell(headerGroups[g].headers, headerGroups[g + 1].headers[k],
                          headerGroups[g + 1].headers[k + 1])
      /\ HeadersBelow(headerGroups[g].headers) = headerGroups[g + 1].headers

\* a group above the leaves holds a merged cell next to another cell
C17_Witness ==
  /\ pc = "grouped"
  /\ \E g \in 1..(Len(headerGroups) - 1) :
       /\ Len(headerGroups[g].headers) >= 2
       /\ \E k \in 1..Len(headerGroups[g].headers) :
            Len(colHeap[headerGroups[g].headers[k].val].headers.val) >= 2

\* no header of the group has a parent: the group is the outermost one
Outermost(group) ==
  \A k \in 1..Len(group.headers) : ~Truthy(Field(colHeap[group.headers[k].val], "parent"))

\* C18 (as amended): makeHeaderGroups reverses the build order itself and
\* returns the outermost group first and the leaf-level group last.
C18_OutermostFirst ==
  (pc = "grouped" /\ headerGroups # <<>>) =>
    /\ headerGroups[Len(headerGroups)].headers = allColumns
    /\ Outermost(headerGroups[1])
    /\ \A g \in 2..Len(headerGroups) : ~Outermost(headerGroups[g])

\* C18 (as stated): the groups are returned in build order, the leaf-level
\* group first and the outermost group last.
C18_LeafFirst ==
  (pc = "grouped" /\ headerGroups # <<>>) =>
    /\ headerGroups[1].headers = allColumns
    /\ Outermost(headerGroups[Len(headerGroups)])
    /\ \A g \in 1..(Len(headerGroups) - 1) : ~Outermost(headerGroups[g])

\* three groups were returned, the leaf columns last
C18_Witness ==
  /\ pc = "grouped"
  /\ Len(headerGroups) >= 3
  /\ headerGroups[Len(headerGroups)].headers = allColumns
  /\ headerGroups[1].headers # allColumns

\* the greatest depth among the columns handed to makeHeaderGroups
RECURSIVE MaxDepth(_)
MaxDepth(cols) ==
  IF cols = <<>> THEN 0
  ELSE IF colHeap[Head(cols).val].depth.val > MaxDepth(Tail(cols))
    THEN colHeap[Head(cols).val].depth.val
    ELSE MaxDepth(Tail(cols))

\* C19: makeHeaderGroups returns exactly (greatest depth among the input
\* columns + 1) header groups, and none for an empty input.
C19_GroupCount ==
  pc = "grouped" =>
    Len(headerGroups) = IF allColumns = <<>> THEN 0 ELSE MaxDepth(allColumns) + 1

----------------------------------------------------------------------------
(* Accessor-path cache: properties *)

\* C20: over any sequence of getBy calls the entries of pathObjCache are only
\* added, never modified or removed; a path is parsed only when its signature
\* is not cached yet; and the value a call returns is the value a fresh parse
\* of its path gives, whatever calls preceded it.
C20_CacheTransparent ==
  [][/\ \A k \in DOMAIN pathObjCache :
          k \in DOMAIN pathObjCache' /\ pathObjCache'[k] = pathObjCache[k]
     /\ gbCall'.parsed =>
          /\ JSONstringify(gbCall'.path) \notin DOMAIN pathObjCache
          /\ JSONstringify(gbCall'.path) \in DOMAIN pathObjCache'
     /\ gbCall'.ret = getBy(gbCall'.obj, gbCall'.path, gbCall'.def, <<>>).ret]_vars

----------------------------------------------------------------------------
(* Column flattening and depth: properties *)

\* flattenColumns returned
ColumnsFlattened == pc \notin {"start", "configError", "linked"}

\* the column has no nested sub-columns: no columns list or an empty one
IsLeaf(col) == ~(col.columns.type = "array" /\ Len(col.columns.val) > 0)

\* the output copies of the configuration's nodes, left to right, depth first
LinkedNodes == [i \in 1..Len(PreOrder(columns)) |-> Ref(i)]

\* C21: flattenColumns returns exactly the leaf columns of the tree (a column
\* with an empty columns list included), each once, in left-to-right
\* depth-first order; group columns with sub-columns are never included.
C21_LeafColumns ==
  ColumnsFlattened =>
    allColumns = SelectSeq(LinkedNodes, LAMBDA r : IsLeaf(colHeap[r.val]))

\* the greatest depth of a node of the linked tree
RECURSIVE TreeDepth(_)
TreeDepth(n) ==
  IF n = 0 THEN 0 ELSE MathMax(colHeap[n].depth.val, TreeDepth(n - 1))

\* C22: findMaxDepth(columns) is the greatest nesting depth of a column of the
\* tree, whatever the order of siblings, 0 for a flat or empty list; for a
\* non-empty tree it is the number of header groups built for the tree's
\* leaves, minus one.
C22_MaxDepth ==
  mdCall.called =>
    /\ mdCall.ret = Num(TreeDepth(Len(PreOrder(columns))))
    /\ allColumns # <<>> => mdCall.ret = Num(Len(headerGroups) - 1)

----------------------------------------------------------------------------
(* Re-run of a column pass: properties *)

\* C23: when accessRowsForColumn runs again for a column it already ran for,
\* with the same data, hooks and accumulators, every row.values[column.id]
\* stays what the first call left: the hooks get the freshly accessed value,
\* never an already transformed one, with and without an accessor.
C23_RerunKeepsValues ==
  [][(/\ passes >= Len(allColumns)
      /\ passes' = passes + 1
      /\ pc' = "rows")
       => \A a \in 1..Len(rowHeap) :
            ValuesGet(rowHeap'[a].values, String(colHeap[lastPass'.column.val].id))
              = ValuesGet(rowHeap[a].values, String(colHeap[lastPass'.column.val].id))]_vars

----------------------------------------------------------------------------
(* Group headers: properties *)

\* the header cells of the groups above the leaf level
HeaderCells ==
  UNION { { headerGroups[g].headers[k].val : k \in 1..Len(headerGroups[g].headers) } :
          g \in 1..(Len(headerGroups) - 1) }

\* header cell h stands for the group column p of the linked configuration
Represents(h, p) ==
  /\ "placeholderOf" \notin DOMAIN colHeap[h]
  /\ colHeap[h].originalId = colHeap[p].id
  /\ colHeap[h].columns = colHeap[p].columns

\* C24: no two header cells of the makeHeaderGroups result, in the same or in
\* different header groups, stand for the same real group column.
C24_OneCellPerGroup ==
  pc = "grouped" =>
    \A p \in 1..Len(PreOrder(columns)) :
      \A h1, h2 \in HeaderCells :
        (Represents(h1, p) /\ Represents(h2, p)) => h1 = h2

----------------------------------------------------------------------------
(* Row expansion: frame *)

kFlags == {"isExpanded", "canExpand"}

\* C25: expandRows writes isExpanded and canExpand on the rows it emits and
\* nothing else: a row it does not emit is left exactly as it was (so a hidden
\* row keeps the flags of the last call that emitted it), and no row's id,
\* values, subRows or other field and not the rows array is changed.
C25_OnlyEmittedRowsWritten ==
  [][(pc' # pc /\ pc' \in {"expanded", "reexpanded"}) =>
       /\ rows' = rows
       /\ Len(rowHeap') = Len(rowHeap)
       /\ \A a \in 1..Len(rowHeap) :
            /\ IF Emitted(Ref(a))' THEN kFlags \subseteq DOMAIN rowHeap'[a]
                                   ELSE rowHeap'[a] = rowHeap[a]
            /\ DOMAIN rowHeap'[a] \ kFlags = DOMAIN rowHeap[a] \ kFlags
            /\ \A f \in DOMAIN rowHeap[a] \ kFlags : rowHeap'[a][f] = rowHeap[a][f]]_vars

\* after the state changed a row hidden under its collapsed parent still
\* carries the expanded flag of the earlier call that emitted it
C25_Witness ==
  /\ pc = "reexpanded"
  /\ \E i \in 1..Len(flatRows) :
       /\ ~Emitted(flatRows[i])
       /\ "isExpanded" \in DOMAIN Row(flatRows[i])
       /\ Truthy(Row(flatRows[i]).isExpanded)
       /\ ~RowIsExpanded(Row(flatRows[i]), exCall.opts)

====
